---- MODULE Spec2Model ----
(***************************************************************************)
(* A model of pull_alerts.py: one run of print_all_incidents against the   *)
(* incident-management collaborator.  Text is modelled as sequences of     *)
(* one-character strings so that substring tests and formatting are        *)
(* computed, local date/times as records of their fields.                  *)
(***************************************************************************)
EXTENDS Integers, Sequences, FiniteSets, TLC

VARIABLES
    pd,                  \* the collaborator's data: policies and incidents
    include_low,         \* args.include_low
    clock,               \* the wall clock: the earliest value the next read can return
    pc,                  \* position of the run in print_all_incidents
    policy_idx,          \* index of the next entry of settings.ESCALATION_POLICIES
    services,            \* print_all_incidents: services
    readings,            \* the values datetime.now() returned, in order
    queries,             \* the arguments incidents.list was called with
    recent_incidents,    \* print_all_incidents: recent_incidents
    formatted_incidents, \* get_formatted_incidents: formatted_incidents
    high_urg_incidents,  \* print_all_incidents: high_urg_incidents
    low_urg_incidents,   \* print_all_incidents: low_urg_incidents
    warnings,            \* what logger.warning was called with (incident urls)
    out,                 \* what was printed, in order
    calls,               \* the collaborator calls issued, in order, with their outcome
    error                \* the exception that ended the run, or "none"

vars == <<pd, include_low, clock, pc, policy_idx, services, readings, queries,
          recent_incidents, formatted_incidents, high_urg_incidents,
          low_urg_incidents, warnings, out, calls, error>>

(***************************************************************************)
(* Bounds of the model.                                                    *)
(***************************************************************************)
MaxIncidents == 2
MaxNotes == 2
NumPolicies == 2
FirstDay == 7
MaxDay == 14

(***************************************************************************)
(* Text.                                                                   *)
(***************************************************************************)
NO_NOTE == <<"N", "O", " ", "N", "O", "T", "E">>
no_note_text == <<"n", "o", " ", "n", "o", "t", "e">>
LowMarker == <<"-", "l", "o", "w", "-">>
TagA == <<"#", "a">>
TagNA == <<"#", "n", "a">>
TagT == <<"#", "t">>

\* Python's `sub in s` on strings
Contains(sub, s) ==
    \E p \in 1..(Len(s) - Len(sub) + 1) : SubSeq(s, p, p + Len(sub) - 1) = sub

\* an attribute that hasattr() finds, and one it does not find
Some(v) == [has |-> TRUE, val |-> v]
None == [has |-> FALSE, val |-> <<>>]

(***************************************************************************)
(* Local date/times.  Day 0 is Monday 2024-01-01; weekday() is Python's    *)
(* (Monday 0 ... Sunday 6).                                                *)
(***************************************************************************)
DateTime(d, h, m, s, us) ==
    [day |-> d, hour |-> h, minute |-> m, second |-> s, microsecond |-> us]

weekday(dt) == dt.day % 7

replace_noon(dt) == DateTime(dt.day, 12, 0, 0, 0)

timedelta_add(dt, days) == [dt EXCEPT !.day = dt.day + days]

\* dt + relativedelta(days=days, weekday=WE(-1)): the days are added first,
\* then the date moves back to the nearest Wednesday on or before it
relativedelta_add(dt, days) ==
    LET ret == timedelta_add(dt, days)
        jumpdays == (weekday(ret) - 2) % 7
    IN  timedelta_add(ret, -jumpdays)

get_oncall_start_any_day(now) ==
    relativedelta_add(replace_noon(now), 0)

get_oncall_start(now) ==
    LET today == replace_noon(now)
    IN  IF weekday(today) = 2
        THEN relativedelta_add(today, -1)
        ELSE relativedelta_add(today, 0)

FetchWindowDays == 8
StatsWindowDays == 7

MonthLengths == <<31, 29, 31, 30, 31, 30, 31, 31, 30, 31, 30, 31>>

RECURSIVE MonthDay(_, _)
MonthDay(d, m) ==
    IF d < MonthLengths[m] THEN <<m, d + 1>> ELSE MonthDay(d - MonthLengths[m], m + 1)

\* strftime('%m/%d %H:%M'): month, day of month, hour, minute
strftime(dt) ==
    LET md == MonthDay(dt.day, 1) IN <<md[1], md[2], dt.hour, dt.minute>>

\* a < b on local date/times
Before(a, b) ==
    LET ka == <<a.day, a.hour, a.minute, a.second, a.microsecond>>
        kb == <<b.day, b.hour, b.minute, b.second, b.microsecond>>
    IN  \E p \in 1..5 : ka[p] < kb[p] /\ \A q \in 1..(p - 1) : ka[q] = kb[q]

(***************************************************************************)
(* FormattedIncident and the normalizer.                                   *)
(***************************************************************************)
is_high_urgency_field_only(i) == ~(i.urgency = "low")

is_high_urgency(i) == ~(i.urgency = "low" \/ Contains(LowMarker, i.service))

format_note_content_only(note) == note.content

format_note(note) == note.user.summary \o <<":", " ">> \o note.content

\* lines 122-129: the description attribute the incident ends up with
resolve_description(incident) ==
    IF incident.title.has THEN Some(incident.title.val)
    ELSE IF incident.summary.has THEN Some(incident.summary.val)
    ELSE IF incident.id.has THEN Some(incident.id.val)
    ELSE None

\* one iteration of the loop of get_formatted_incidents, given the notes the
\* collaborator returned; created_on (line 130) is left out: only
\* pretty_output reads it, and nothing calls pretty_output
get_formatted_incident(incident, notes) ==
    LET formatted_notes == [j \in 1..Len(notes) |-> format_note(notes[j])]
    IN  [service |-> incident.service.summary,
         url |-> incident.html_url,
         urgency |-> incident.urgency,
         description |-> resolve_description(incident),
         notes |-> formatted_notes,
         last_note |-> IF formatted_notes # <<>>
                       THEN formatted_notes[Len(formatted_notes)]
                       ELSE NO_NOTE]

(***************************************************************************)
(* The classifier.                                                         *)
(***************************************************************************)
is_actionable(incident) ==
    \E j \in 1..Len(incident.notes) : Contains(TagA, incident.notes[j])

is_non_actionable(incident) ==
    \E j \in 1..Len(incident.notes) : Contains(TagNA, incident.notes[j])

is_transient(incident) ==
    \E j \in 1..Len(incident.notes) : Contains(TagT, incident.notes[j])

Add4(a, b) == <<a[1] + b[1], a[2] + b[2], a[3] + b[3], a[4] + b[4]>>

RECURSIVE get_breakdown_no_elif(_)
get_breakdown_no_elif(incidents) ==
    IF incidents = <<>> THEN <<0, 0, 0, 0>>
    ELSE LET i == incidents[Len(incidents)]
             a == IF is_actionable(i) THEN 1 ELSE 0
             na == IF is_non_actionable(i) THEN 1 ELSE 0
             t == IF is_transient(i) THEN 1 ELSE 0
             nt == IF a + na + t = 0 THEN 1 ELSE 0
         IN  Add4(get_breakdown_no_elif(SubSeq(incidents, 1, Len(incidents) - 1)),
                  <<a, na, t, nt>>)

RECURSIVE get_breakdown_na_first(_)
get_breakdown_na_first(incidents) ==
    IF incidents = <<>> THEN <<0, 0, 0, 0>>
    ELSE LET i == incidents[Len(incidents)]
         IN  Add4(get_breakdown_na_first(SubSeq(incidents, 1, Len(incidents) - 1)),
                  IF is_non_actionable(i) THEN <<0, 1, 0, 0>>
                  ELSE IF is_actionable(i) THEN <<1, 0, 0, 0>>
                  ELSE IF is_transient(i) THEN <<0, 0, 1, 0>>
                  ELSE <<0, 0, 0, 1>>)

\* <<actionable, non_actionable, transient, not_tagged>>
RECURSIVE get_breakdown(_)
get_breakdown(incidents) ==
    IF incidents = <<>> THEN <<0, 0, 0, 0>>
    ELSE LET i == incidents[Len(incidents)]
         IN  Add4(get_breakdown(SubSeq(incidents, 1, Len(incidents) - 1)),
                  IF is_actionable(i) THEN <<1, 0, 0, 0>>
                  ELSE IF is_non_actionable(i) THEN <<0, 1, 0, 0>>
                  ELSE IF is_transient(i) THEN <<0, 0, 1, 0>>
                  ELSE <<0, 0, 0, 1>>)

(***************************************************************************)
(* The renderer.  A printed line is a record; url, n and table are 0 and   *)
(* <<>> where the line has none.                                           *)
(***************************************************************************)
Line(kind, text, url, n, table) ==
    [kind |-> kind, text |-> text, url |-> url, n |-> n, table |-> table]

HighHeader == Line("high_header", <<>>, 0, 0, <<>>)
LowHeader == Line("low_header", <<>>, 0, 0, <<>>)

\* lines 109-112: one bullet
Bullet(i) ==
    IF i.last_note = NO_NOTE
    THEN Line("bullet", no_note_text, i.url, 0, <<>>)
    ELSE Line("bullet", i.last_note, i.url, 0, <<>>)

\* desc_to_incident_list[desc]
desc_incidents(incidents, desc) ==
    SelectSeq(incidents, LAMBDA i : i.description.val = desc)

\* lines 107-112 for the keys in the order the mapping yields them
RECURSIVE render_groups(_, _)
render_groups(order, incidents) ==
    IF order = <<>> THEN <<>>
    ELSE LET desc == Head(order)
             group == desc_incidents(incidents, desc)
         IN  <<Line("group", desc, 0, Len(group), <<>>)>>
             \o [j \in 1..Len(group) |-> Bullet(group[j])]
             \o render_groups(Tail(order), incidents)

\* line 104 reads incident.description: an AttributeError when it was never set
pages_raises(incidents) ==
    \E j \in 1..Len(incidents) : ~incidents[j].description.has

\* the orders in which the mapping of line 102 can yield its keys
key_orders(incidents) ==
    LET keys == {incidents[j].description.val : j \in 1..Len(incidents)}
    IN  {o \in [1..Cardinality(keys) -> keys] :
            \A a, b \in 1..Cardinality(keys) : a # b => o[a] # o[b]}

\* what print_pages_by_description can print
print_pages_by_description(incidents) ==
    {render_groups(o, incidents) : o \in key_orders(incidents)}

\* lines 144-161 with the clock reading `now`
print_stats(high, low, now) ==
    LET h == get_breakdown(high)
        l == get_breakdown(low)
        oncall_start == get_oncall_start(now)
        oncall_end == timedelta_add(oncall_start, StatsWindowDays)
    IN  Line("stats", <<>>, 0, 0,
             <<strftime(oncall_start), strftime(oncall_end),
               <<h[1], h[2], h[3], h[4], Len(high)>>,
               <<l[1], l[2], l[3], l[4], Len(low)>> >>)

(***************************************************************************)
(* The collaborator's data and the clock.                                  *)
(***************************************************************************)
Call(op, arg, ok) == [op |-> op, arg |-> arg, ok |-> ok]

Note(user, content) == [user |-> [summary |-> user], content |-> content]

RawIncident(service, urgency, title, summary, id, notes) ==
    [service |-> [summary |-> service], html_url |-> 0, urgency |-> urgency,
     title |-> title, summary |-> summary, id |-> id, notes |-> notes]

\* sequences of at most n elements of S
SeqsUpTo(S, n) == UNION {[1..m -> S] : m \in 0..n}

\* every incident has its own url
Numbered(kinds) == [j \in 1..Len(kinds) |-> [kinds[j] EXCEPT !.html_url = j]]

World(policies, kinds) == [policies |-> policies, incidents |-> Numbered(kinds)]

OwnServices == [p \in 1..NumPolicies |-> <<p>>]

TimesOfDay == {<<0, 0, 0, 0>>, <<11, 59, 59, 999999>>, <<12, 0, 0, 0>>,
               <<23, 59, 59, 999999>>}

ClockValues ==
    {DateTime(d, t[1], t[2], t[3], t[4]) : d \in FirstDay..MaxDay, t \in TimesOfDay}

LastInstant == DateTime(MaxDay, 23, 59, 59, 999999)

\* what datetime.now() can return: the clock does not run backwards
Now == {t \in ClockValues : ~Before(t, clock)}

(***************************************************************************)
(* The inputs of the runs that are checked.                                *)
(***************************************************************************)
CheckoutProd == <<"c", "h", "e", "c", "k", "o", "u", "t", "-", "p", "r", "o", "d">>
CheckoutLowPriority == <<"c", "h", "e", "c", "k", "o", "u", "t", "-", "l", "o", "w", "-", "p", "r", "i", "o", "r", "i", "t", "y">>
CheckoutLow == <<"c", "h", "e", "c", "k", "o", "u", "t", "-", "l", "o", "w">>
DbCpuHigh == <<"D", "B", " ", "C", "P", "U", " ", "h", "i", "g", "h">>
DiskFull == <<"d", "i", "s", "k", " ", "f", "u", "l", "l">>
IncidentId == <<"P", "1">>
Alice == <<"x">>
NoteFixed == Note(Alice, <<"f", "i", "x", "e", "d", " ", "#", "a">>)
NoteNoise == Note(Alice, <<"n", "o", "i", "s", "e", " ", "#", "n", "a">>)
NoteFlap == Note(Alice, <<"f", "l", "a", "p", " ", "#", "t">>)
NoteHi == Note(Alice, <<"h", "i">>)
NoteAnother == Note(Alice, <<"#", "a", "n", "o", "t", "h", "e", "r">>)

\* which of title, summary and id the raw incident has
DescriptionFields ==
    {<<Some(DbCpuHigh), Some(DiskFull), Some(IncidentId)>>,
     <<None, Some(DiskFull), Some(IncidentId)>>,
     <<None, None, Some(IncidentId)>>,
     <<None, None, None>>}

RunKinds ==
    {RawIncident(CheckoutProd, u, f[1], f[2], f[3], n) :
        u \in {"high", "low"}, f \in DescriptionFields, n \in {<<>>, <<NoteFixed>>}}

UrgencyKinds ==
    {RawIncident(s, u, Some(DbCpuHigh), Some(DiskFull), Some(IncidentId), <<>>) :
        s \in {CheckoutProd, CheckoutLowPriority, CheckoutLow}, u \in {"high", "low"}}

TagNotes == {NoteFixed, NoteNoise, NoteFlap, NoteHi, NoteAnother}

TagKindsDeep ==
    {RawIncident(CheckoutProd, "high", Some(DbCpuHigh), None, Some(IncidentId), n) :
        n \in SeqsUpTo(TagNotes, MaxNotes)}

TagKindsWide ==
    {RawIncident(CheckoutProd, u, Some(DbCpuHigh), None, Some(IncidentId), n) :
        u \in {"high", "low"},
        n \in {<<>>, <<NoteFixed>>, <<NoteNoise>>, <<NoteFlap>>, <<NoteHi>>,
               <<NoteNoise, NoteFixed>>}}

NoteAuthors == {<<>>, Alice}
NoteContents == {<<>>, <<"h", "i">>, NO_NOTE}
PlainNotes == {Note(a, c) : a \in NoteAuthors, c \in NoteContents}

NoteKindsDeep ==
    {RawIncident(CheckoutProd, "high", Some(DbCpuHigh), None, Some(IncidentId), n) :
        n \in SeqsUpTo(PlainNotes, MaxNotes)}

NoteKindsWide ==
    {RawIncident(CheckoutProd, u, Some(t), None, Some(IncidentId), n) :
        u \in {"high", "low"}, t \in {DbCpuHigh, DiskFull},
        n \in {<<>>, <<Note(Alice, NO_NOTE)>>}}

WindowKinds ==
    {RawIncident(CheckoutProd, u, Some(DbCpuHigh), None, Some(IncidentId), <<NoteFixed>>) :
        u \in {"high", "low"}}

RunWorlds == {World(OwnServices, k) : k \in SeqsUpTo(RunKinds, MaxIncidents)}

UrgencyWorlds == {World(OwnServices, k) : k \in SeqsUpTo(UrgencyKinds, MaxIncidents)}

TagWorlds ==
    {World(OwnServices, k) :
        k \in SeqsUpTo(TagKindsDeep, 1) \cup SeqsUpTo(TagKindsWide, MaxIncidents)}

NoteWorlds ==
    {World(OwnServices, k) :
        k \in SeqsUpTo(NoteKindsDeep, 1) \cup SeqsUpTo(NoteKindsWide, MaxIncidents)}

WindowWorlds ==
    {World(p, k) : p \in [1..NumPolicies -> {<<>>, <<1>>}], k \in SeqsUpTo(WindowKinds, 1)}

(***************************************************************************)
(* The run.                                                                *)
(***************************************************************************)
InitWith(worlds, clocks) ==
    /\ pd \in worlds
    /\ include_low \in BOOLEAN
    /\ clock \in clocks
    /\ pc = IF NumPolicies = 0 THEN "list" ELSE "policies"
    /\ policy_idx = 1
    /\ services = <<>>
    /\ readings = <<>>
    /\ queries = <<>>
    /\ recent_incidents = <<>>
    /\ formatted_incidents = <<>>
    /\ high_urg_incidents = <<>>
    /\ low_urg_incidents = <<>>
    /\ warnings = <<>>
    /\ out = <<>>
    /\ calls = <<>>
    /\ error = "none"

Init == InitWith(RunWorlds, {LastInstant})
InitUrgency == InitWith(UrgencyWorlds, {LastInstant})
InitTags == InitWith(TagWorlds, {LastInstant})
InitNotes == InitWith(NoteWorlds, {LastInstant})
InitWindow == InitWith(WindowWorlds, ClockValues)

\* an exception nothing catches: the run ends
Raise(e) ==
    /\ pc' = "failed"
    /\ error' = e

\* lines 72-73, one escalation policy
ShowPolicy ==
    /\ pc = "policies"
    /\ calls' = Append(calls, Call("show", policy_idx, TRUE))
    /\ services' = services \o pd.policies[policy_idx]
    /\ policy_idx' = policy_idx + 1
    /\ pc' = IF policy_idx = NumPolicies THEN "list" ELSE "policies"
    /\ UNCHANGED <<pd, include_low, clock, readings, queries, recent_incidents,
                   formatted_incidents, high_urg_incidents, low_urg_incidents,
                   warnings, out, error>>

\* line 73 when the collaborator call fails
ShowPolicyFails ==
    /\ pc = "policies"
    /\ calls' = Append(calls, Call("show", policy_idx, FALSE))
    /\ Raise("collaborator")
    /\ UNCHANGED <<pd, include_low, clock, policy_idx, services, readings, queries,
                   recent_incidents, formatted_incidents, high_urg_incidents,
                   low_urg_incidents, warnings, out>>

\* line 75: recent_incidents_for_services(services), lines 43-52
ListIncidents ==
    /\ pc = "list"
    /\ \E now \in Now :
        LET on_call_start == get_oncall_start(now)
            on_call_end == timedelta_add(on_call_start, FetchWindowDays)
        IN  /\ clock' = now
            /\ readings' = Append(readings, now)
            /\ queries' = Append(queries, [service_ids |-> services,
                                           since |-> on_call_start,
                                           until |-> on_call_end])
    /\ calls' = Append(calls, Call("list", 0, TRUE))
    /\ recent_incidents' = pd.incidents
    /\ pc' = IF pd.incidents = <<>> THEN "partition" ELSE "format"
    /\ UNCHANGED <<pd, include_low, policy_idx, services, formatted_incidents,
                   high_urg_incidents, low_urg_incidents, warnings, out, error>>

\* lines 45-51 when the collaborator call fails
ListIncidentsFails ==
    /\ pc = "list"
    /\ \E now \in Now :
        LET on_call_start == get_oncall_start(now)
            on_call_end == timedelta_add(on_call_start, FetchWindowDays)
        IN  /\ clock' = now
            /\ readings' = Append(readings, now)
            /\ queries' = Append(queries, [service_ids |-> services,
                                           since |-> on_call_start,
                                           until |-> on_call_end])
    /\ calls' = Append(calls, Call("list", 0, FALSE))
    /\ Raise("collaborator")
    /\ UNCHANGED <<pd, include_low, policy_idx, services, recent_incidents,
                   formatted_incidents, high_urg_incidents, low_urg_incidents,
                   warnings, out>>

\* the incident the loop of get_formatted_incidents is at
CurrentIncident == recent_incidents[Len(formatted_incidents) + 1]

\* line 129
LogIfNoDescription(incident) ==
    warnings' = IF resolve_description(incident).has
                THEN warnings
                ELSE Append(warnings, incident.html_url)

\* lines 117-138 when the collaborator call fails, the notes taken as none
ListNotesFailsSwallowed ==
    /\ pc = "format"
    /\ calls' = Append(calls, Call("notes", CurrentIncident.html_url, FALSE))
    /\ LogIfNoDescription(CurrentIncident)
    /\ formatted_incidents' =
           Append(formatted_incidents, get_formatted_incident(CurrentIncident, <<>>))
    /\ pc' = IF Len(formatted_incidents) + 1 = Len(recent_incidents)
             THEN "partition" ELSE "format"
    /\ UNCHANGED <<pd, include_low, clock, policy_idx, services, readings, queries,
                   recent_incidents, high_urg_incidents, low_urg_incidents, out,
                   error>>

\* lines 117-138, one incident
FormatIncident ==
    /\ pc = "format"
    /\ calls' = Append(calls, Call("notes", CurrentIncident.html_url, TRUE))
    /\ LogIfNoDescription(CurrentIncident)
    /\ formatted_incidents' =
           Append(formatted_incidents,
                  get_formatted_incident(CurrentIncident, CurrentIncident.notes))
    /\ pc' = IF Len(formatted_incidents) + 1 = Len(recent_incidents)
             THEN "partition" ELSE "format"
    /\ UNCHANGED <<pd, include_low, clock, policy_idx, services, readings, queries,
                   recent_incidents, high_urg_incidents, low_urg_incidents, out,
                   error>>

\* lines 118-132 when the collaborator call fails
ListNotesFails ==
    /\ pc = "format"
    /\ calls' = Append(calls, Call("notes", CurrentIncident.html_url, FALSE))
    /\ LogIfNoDescription(CurrentIncident)
    /\ Raise("collaborator")
    /\ UNCHANGED <<pd, include_low, clock, policy_idx, services, readings, queries,
                   recent_incidents, formatted_incidents, high_urg_incidents,
                   low_urg_incidents, out>>

\* lines 76-79
Partition ==
    /\ pc = "partition"
    /\ high_urg_incidents' = SelectSeq(formatted_incidents, is_high_urgency)
    /\ low_urg_incidents' =
           SelectSeq(formatted_incidents, LAMBDA i : ~is_high_urgency(i))
    /\ out' = Append(out, HighHeader)
    /\ pc' = "high"
    /\ UNCHANGED <<pd, include_low, clock, policy_idx, services, readings, queries,
                   recent_incidents, formatted_incidents, warnings, calls, error>>

\* line 80
PrintHighPages ==
    /\ pc = "high"
    /\ IF pages_raises(high_urg_incidents)
       THEN Raise("AttributeError") /\ UNCHANGED out
       ELSE /\ \E lines \in print_pages_by_description(high_urg_incidents) :
                   out' = out \o lines
            /\ pc' = "low"
            /\ UNCHANGED error
    /\ UNCHANGED <<pd, include_low, clock, policy_idx, services, readings, queries,
                   recent_incidents, formatted_incidents, high_urg_incidents,
                   low_urg_incidents, warnings, calls>>

\* lines 81-83
LowSection ==
    /\ pc = "low"
    /\ IF ~include_low
       THEN pc' = "stats" /\ UNCHANGED <<out, error>>
       ELSE IF pages_raises(low_urg_incidents)
       THEN Raise("AttributeError") /\ out' = Append(out, LowHeader)
       ELSE /\ \E lines \in print_pages_by_description(low_urg_incidents) :
                   out' = Append(out, LowHeader) \o lines
            /\ pc' = "stats"
            /\ UNCHANGED error
    /\ UNCHANGED <<pd, include_low, clock, policy_idx, services, readings, queries,
                   recent_incidents, formatted_incidents, high_urg_incidents,
                   low_urg_incidents, warnings, calls>>

\* line 85
PrintStats ==
    /\ pc = "stats"
    /\ \E now \in Now :
        /\ clock' = now
        /\ readings' = Append(readings, now)
        /\ out' = Append(out, print_stats(high_urg_incidents, low_urg_incidents, now))
    /\ pc' = "total"
    /\ UNCHANGED <<pd, include_low, policy_idx, services, queries, recent_incidents,
                   formatted_incidents, high_urg_incidents, low_urg_incidents,
                   warnings, calls, error>>

\* line 87
PrintTotal ==
    /\ pc = "total"
    /\ out' = Append(out, Line("total", <<>>, 0, Len(formatted_incidents), <<>>))
    /\ pc' = "done"
    /\ UNCHANGED <<pd, include_low, clock, policy_idx, services, readings, queries,
                   recent_incidents, formatted_incidents, high_urg_incidents,
                   low_urg_incidents, warnings, calls, error>>

Next ==
    \/ ShowPolicy
    \/ ShowPolicyFails
    \/ ListIncidents
    \/ ListIncidentsFails
    \/ FormatIncident
    \/ ListNotesFails
    \/ Partition
    \/ PrintHighPages
    \/ LowSection
    \/ PrintStats
    \/ PrintTotal

Spec == Init /\ [][Next]_vars
SpecUrgency == InitUrgency /\ [][Next]_vars
SpecTags == InitTags /\ [][Next]_vars
SpecNotes == InitNotes /\ [][Next]_vars
SpecWindow == InitWindow /\ [][Next]_vars

(***************************************************************************)
(* Vocabulary of the properties.                                           *)
(***************************************************************************)
Sum4(b) == b[1] + b[2] + b[3] + b[4]

UnitCounts == {<<1, 0, 0, 0>>, <<0, 1, 0, 0>>, <<0, 0, 1, 0>>, <<0, 0, 0, 1>>}

\* the statistics tables printed so far
StatsTables == {out[j].table : j \in {k \in 1..Len(out) : out[k].kind = "stats"}}

\* the lists of print_all_incidents have been computed
Partitioned ==
    \/ pc \in {"high", "low", "stats", "total", "done"}
    \/ pc = "failed" /\ error = "AttributeError"

\* the run is over and every collaborator call succeeded
RanToRenderer == pc \in {"done", "failed"} /\ error # "collaborator"

\* some note of the incident has the characters of the tag next to each other
NoteHas2(i, c1, c2) ==
    \E j \in 1..Len(i.notes) : \E p \in 1..(Len(i.notes[j]) - 1) :
        i.notes[j][p] = c1 /\ i.notes[j][p + 1] = c2

NoteHas3(i, c1, c2, c3) ==
    \E j \in 1..Len(i.notes) : \E p \in 1..(Len(i.notes[j]) - 2) :
        i.notes[j][p] = c1 /\ i.notes[j][p + 1] = c2 /\ i.notes[j][p + 2] = c3

TaggedA(i) == NoteHas2(i, "#", "a")
TaggedNA(i) == NoteHas3(i, "#", "n", "a")
TaggedT(i) == NoteHas2(i, "#", "t")

CountOf(incidents, P(_)) == Cardinality({j \in 1..Len(incidents) : P(incidents[j])})

\* the counts the tag priority #a > #na > #t gives, with the size of the list
PriorityCounts(incidents) ==
    <<CountOf(incidents, TaggedA),
      CountOf(incidents, LAMBDA i : ~TaggedA(i) /\ TaggedNA(i)),
      CountOf(incidents, LAMBDA i : ~TaggedA(i) /\ ~TaggedNA(i) /\ TaggedT(i)),
      CountOf(incidents, LAMBDA i : ~TaggedA(i) /\ ~TaggedNA(i) /\ ~TaggedT(i)),
      Len(incidents)>>

\* the rearrangements of a sequence
Rearrangements(s) ==
    {[j \in 1..Len(s) |-> s[f[j]]] :
        f \in {g \in [1..Len(s) -> 1..Len(s)] :
                  \A a, b \in 1..Len(s) : a # b => g[a] # g[b]}}

(***************************************************************************)
(* C1.  get_breakdown returns four non-negative counts whose sum is the    *)
(* number of incidents of the list, for the empty list and for incidents   *)
(* without notes too; an incident is counted in exactly one counter.  It   *)
(* is stated of the lists of the run and of the table print_stats prints.  *)
(***************************************************************************)
C1_BreakdownSums ==
    /\ \A l \in {formatted_incidents, high_urg_incidents, low_urg_incidents} :
          LET b == get_breakdown(l)
          IN  /\ \A c \in 1..4 : b[c] >= 0
              /\ Sum4(b) = Len(l)
    /\ \A j \in 1..Len(formatted_incidents) :
          get_breakdown(<<formatted_incidents[j]>>) \in UnitCounts
    /\ \A t \in StatsTables :
          /\ Sum4(t[3]) = Len(high_urg_incidents)
          /\ Sum4(t[4]) = Len(low_urg_incidents)

\* the table of two high urgency incidents, one without notes and one with
\* #na and #a, and of an empty low urgency list
C1_Witness ==
    /\ pc = "done"
    /\ \E j \in 1..Len(high_urg_incidents) : high_urg_incidents[j].notes = <<>>
    /\ \E j \in 1..Len(high_urg_incidents) :
          TaggedA(high_urg_incidents[j]) /\ TaggedNA(high_urg_incidents[j])
    /\ \E t \in StatsTables :
          t[3] = <<1, 0, 0, 1, 2>> /\ t[4] = <<0, 0, 0, 0, 0>>

(***************************************************************************)
(* C6.  The counts of the statistics table are those of the priority       *)
(* #a > #na > #t over all notes of an incident: actionable when some note  *)
(* contains #a, non-actionable when none contains #a and some contains     *)
(* #na, transient when none contains #a or #na and some contains #t, not   *)
(* tagged otherwise; rearranging the notes of an incident does not change  *)
(* how it is counted.                                                      *)
(***************************************************************************)
C6_TagPriority ==
    /\ \A t \in StatsTables :
          /\ t[3] = PriorityCounts(high_urg_incidents)
          /\ t[4] = PriorityCounts(low_urg_incidents)
    /\ \A j \in 1..Len(formatted_incidents) :
          LET i == formatted_incidents[j]
          IN  \A n \in Rearrangements(i.notes) :
                 /\ get_breakdown(<<[i EXCEPT !.notes = n]>>) = get_breakdown(<<i>>)
                 /\ get_breakdown(<<i>>) = SubSeq(PriorityCounts(<<i>>), 1, 4)

\* an incident whose first note has #na and whose last note has #a is counted
\* actionable
C6_Witness ==
    /\ pc = "done"
    /\ Len(high_urg_incidents) = 1
    /\ Len(high_urg_incidents[1].notes) = 2
    /\ ~TaggedA([high_urg_incidents[1] EXCEPT
                    !.notes = <<high_urg_incidents[1].notes[1]>>])
    /\ TaggedNA([high_urg_incidents[1] EXCEPT
                    !.notes = <<high_urg_incidents[1].notes[1]>>])
    /\ \E t \in StatsTables : t[3] = <<1, 0, 0, 0, 1>>

\* the service name has the characters -low- next to each other
HasLowMarker(service) ==
    \E p \in 1..(Len(service) - 4) :
        /\ service[p] = "-" /\ service[p + 1] = "l" /\ service[p + 2] = "o"
        /\ service[p + 3] = "w" /\ service[p + 4] = "-"

IsLow(i) == i.urgency = "low" \/ HasLowMarker(i.service)

Urls(incidents) == {incidents[j].url : j \in 1..Len(incidents)}

(***************************************************************************)
(* C5.  is_high_urgency is the negation of "the urgency field is low or    *)
(* the service name contains -low-", so the marker overrides an urgency    *)
(* field of high; the high and low lists of print_all_incidents partition  *)
(* the incidents, and their lengths add up to the number fetched.          *)
(***************************************************************************)
C5_UrgencyPartition ==
    /\ \A j \in 1..Len(formatted_incidents) :
          is_high_urgency(formatted_incidents[j]) = ~IsLow(formatted_incidents[j])
    /\ Partitioned =>
          /\ high_urg_incidents =
                 SelectSeq(formatted_incidents, LAMBDA i : ~IsLow(i))
          /\ low_urg_incidents = SelectSeq(formatted_incidents, IsLow)
          /\ Urls(high_urg_incidents) \cap Urls(low_urg_incidents) = {}
          /\ Urls(high_urg_incidents) \cup Urls(low_urg_incidents)
                 = {recent_incidents[j].html_url : j \in 1..Len(recent_incidents)}
          /\ Len(high_urg_incidents) + Len(low_urg_incidents) = Len(recent_incidents)

\* an incident of urgency high on checkout-low-priority is in the low list,
\* one of urgency high on checkout-low is in the high list
C5_Witness ==
    /\ Partitioned
    /\ \E j \in 1..Len(low_urg_incidents) :
          /\ low_urg_incidents[j].urgency = "high"
          /\ low_urg_incidents[j].service = CheckoutLowPriority
    /\ \E j \in 1..Len(high_urg_incidents) :
          high_urg_incidents[j].service = CheckoutLow

(***************************************************************************)
(* C9.  The notes of a formatted incident are the collaborator's notes in  *)
(* the order returned, each as "<author>: <content>"; last_note is the     *)
(* last of them when there is one, and is the sentinel NO NOTE exactly     *)
(* when there is none; a bullet printed for an incident reads "no note"    *)
(* if and only if the incident has no notes, and shows last_note otherwise.*)
(***************************************************************************)
C9_NotesAndLastNote ==
    /\ \A k \in 1..Len(formatted_incidents) :
          LET f == formatted_incidents[k]
              raw == recent_incidents[k].notes
          IN  /\ Len(f.notes) = Len(raw)
              /\ \A j \in 1..Len(raw) :
                    f.notes[j] = raw[j].user.summary \o <<":", " ">> \o raw[j].content
              /\ Len(raw) > 0 => f.last_note = f.notes[Len(raw)]
              /\ f.last_note = NO_NOTE <=> Len(raw) = 0
    /\ \A b \in 1..Len(out) :
          out[b].kind = "bullet" =>
              LET raw == recent_incidents[out[b].url].notes
              IN  /\ out[b].text = no_note_text <=> Len(raw) = 0
                  /\ Len(raw) > 0 =>
                        out[b].text = raw[Len(raw)].user.summary \o <<":", " ">>
                                          \o raw[Len(raw)].content

\* a bullet reading "no note" and a bullet showing the note "x: NO NOTE"
C9_Witness ==
    /\ pc = "done"
    /\ \E b \in 1..Len(out) : out[b].kind = "bullet" /\ out[b].text = no_note_text
    /\ \E b \in 1..Len(out) :
          out[b].kind = "bullet" /\ out[b].text = Alice \o <<":", " ">> \o NO_NOTE

(***************************************************************************)
(* C7.  A collaborator call that fails ends the run with the error: it is  *)
(* the last call of the run, no call is issued twice, and nothing has been *)
(* printed.                                                                *)
(***************************************************************************)
C7_CollaboratorFailureIsFatal ==
    /\ \A j \in 1..Len(calls) :
          ~calls[j].ok =>
              /\ j = Len(calls)
              /\ pc = "failed"
              /\ error = "collaborator"
              /\ out = <<>>
    /\ \A a, b \in 1..Len(calls) :
          a # b => <<calls[a].op, calls[a].arg>> # <<calls[b].op, calls[b].arg>>
    /\ error = "collaborator" => ~calls[Len(calls)].ok

\* the listing of the second incident's notes fails after every earlier call
\* succeeded
C7_Witness ==
    /\ pc = "failed"
    /\ error = "collaborator"
    /\ Len(calls) = NumPolicies + 3
    /\ calls[Len(calls)] = Call("notes", 2, FALSE)
    /\ Len(formatted_incidents) = 1
    /\ out = <<>>

(***************************************************************************)
(* C4.  get_oncall_start returns a Wednesday at 12:00:00.000: the          *)
(* Wednesday 7 days before today when today is a Wednesday, at any time of *)
(* day, and otherwise the last Wednesday before today, 1 to 6 days         *)
(* earlier; the fetch window ends 8 days after its start.  Wednesday       *)
(* 2024-01-10 (day 9) gives 2024-01-03T12:00 to 2024-01-11T12:00, Friday   *)
(* 2024-01-12 (day 11) gives a start of 2024-01-10T12:00.                  *)
(***************************************************************************)
C4_OncallStart ==
    \A q \in 1..Len(queries) :
        LET now == readings[q]
            since == queries[q].since
            until == queries[q].until
        IN  /\ since.day % 7 = 2
            /\ <<since.hour, since.minute, since.second, since.microsecond>>
                   = <<12, 0, 0, 0>>
            /\ IF now.day % 7 = 2
               THEN since.day = now.day - 7
               ELSE since.day \in (now.day - 6)..(now.day - 1)
            /\ until = [since EXCEPT !.day = since.day + 8]
            /\ now.day = 9 => strftime(since) = <<1, 3, 12, 0>>
                              /\ strftime(until) = <<1, 11, 12, 0>>
            /\ now.day = 11 => strftime(since) = <<1, 10, 12, 0>>

\* the window of a run started on Wednesday 2024-01-10 in the last
\* microsecond of the day
C4_Witness ==
    /\ Len(queries) = 1
    /\ readings[1] = DateTime(9, 23, 59, 59, 999999)
    /\ queries[1].since = DateTime(2, 12, 0, 0, 0)
    /\ queries[1].until = DateTime(10, 12, 0, 0, 0)

(***************************************************************************)
(* C2.  The window start and end in the header of the statistics table are *)
(* the since and until that recent_incidents_for_services passed to the    *)
(* collaborator, however the clock advanced in between.                    *)
(***************************************************************************)
C2_HeaderIsFetchWindow ==
    \A t \in StatsTables :
        /\ t[1] = strftime(queries[1].since)
        /\ t[2] = strftime(queries[1].until)

\* the start alone, with no change of day between the two clock readings
C2_HeaderStartWhenSameDay ==
    \A t \in StatsTables :
        readings[1].day = readings[2].day => t[1] = strftime(queries[1].since)

(***************************************************************************)
(* C3.  The description is the first of title, summary and id the raw      *)
(* incident has; with none of them the description is empty, a warning is  *)
(* logged, and the run goes on to the full report: only a collaborator     *)
(* failure ends a run early.                                               *)
(***************************************************************************)
C3_DescriptionFallback ==
    /\ \A k \in 1..Len(formatted_incidents) :
          LET raw == recent_incidents[k]
              d == formatted_incidents[k].description
          IN  /\ raw.title.has => d = Some(raw.title.val)
              /\ ~raw.title.has /\ raw.summary.has => d = Some(raw.summary.val)
              /\ ~raw.title.has /\ ~raw.summary.has /\ raw.id.has
                    => d = Some(raw.id.val)
              /\ ~raw.title.has /\ ~raw.summary.has /\ ~raw.id.has
                    => d.val = <<>> /\ \E w \in 1..Len(warnings) :
                                            warnings[w] = raw.html_url
    /\ pc = "failed" => error = "collaborator"
    /\ RanToRenderer =>
          /\ pc = "done"
          /\ StatsTables # {}
          /\ out[Len(out)].kind = "total"

\* the part of C3 about the normalizer alone
C3_ResolutionOrder ==
    \A k \in 1..Len(formatted_incidents) :
        LET raw == recent_incidents[k]
            d == formatted_incidents[k].description
        IN  /\ raw.title.has => d = Some(raw.title.val)
            /\ ~raw.title.has /\ raw.summary.has => d = Some(raw.summary.val)
            /\ ~raw.title.has /\ ~raw.summary.has /\ raw.id.has
                  => d = Some(raw.id.val)
            /\ ~raw.title.has /\ ~raw.summary.has /\ ~raw.id.has
                  => ~d.has /\ \E w \in 1..Len(warnings) : warnings[w] = raw.html_url

\* the lines of the section under the header of the given kind
SectionLines(header) ==
    IF \A j \in 1..Len(out) : out[j].kind # header THEN <<>>
    ELSE LET h == CHOOSE j \in 1..Len(out) : out[j].kind = header
             e == CHOOSE j \in h..Len(out) :
                      /\ \A m \in (h + 1)..j : out[m].kind \in {"group", "bullet"}
                      /\ j = Len(out) \/ out[j + 1].kind \notin {"group", "bullet"}
         IN  SubSeq(out, h + 1, e)

(***************************************************************************)
(* C8.  include_low decides only whether the Low Urgency Pages section is  *)
(* printed: the High Urgency Pages section, the Low Urgency column of the  *)
(* statistics table and the Total Pages line, the high count plus the low  *)
(* count, come out the same with and without it.  It is stated of the runs *)
(* whose high urgency section is printed, which the flag has no part in.   *)
(***************************************************************************)
C8_FlagOnlyGatesLowSection ==
    RanToRenderer /\ ~pages_raises(high_urg_incidents) =>
        /\ (\E j \in 1..Len(out) : out[j].kind = "low_header") <=> include_low
        /\ SectionLines("high_header") \in print_pages_by_description(high_urg_incidents)
        /\ \E t \in StatsTables :
              t[4] = PriorityCounts(low_urg_incidents)
        /\ out[Len(out)] =
              Line("total", <<>>, 0,
                   Len(high_urg_incidents) + Len(low_urg_incidents), <<>>)

\* the same of the runs without the flag
C8_WithoutFlag == ~include_low => C8_FlagOnlyGatesLowSection

\* the group line a bullet of a section is under
GroupOf(lines, b) ==
    CHOOSE g \in 1..b :
        lines[g].kind = "group" /\ \A m \in (g + 1)..b : lines[m].kind # "group"

Bullets(lines) == {b \in 1..Len(lines) : lines[b].kind = "bullet"}

Grouped(lines, incidents) ==
    /\ \A j \in 1..Len(incidents) :
          Cardinality({b \in Bullets(lines) : lines[b].url = incidents[j].url}) = 1
    /\ Cardinality(Bullets(lines)) = Len(incidents)
    /\ \A b \in Bullets(lines) : \E g \in 1..b : lines[g].kind = "group"
    /\ \A a, b \in Bullets(lines) :
          LET ia == CHOOSE j \in 1..Len(incidents) : incidents[j].url = lines[a].url
              ib == CHOOSE j \in 1..Len(incidents) : incidents[j].url = lines[b].url
          IN  /\ GroupOf(lines, a) = GroupOf(lines, b)
                    <=> incidents[ia].description = incidents[ib].description
              /\ lines[GroupOf(lines, a)].text = incidents[ia].description.val
    /\ \A g \in 1..Len(lines) :
          lines[g].kind = "group" =>
              lines[g].n = Cardinality({b \in Bullets(lines) : GroupOf(lines, b) = g})

(***************************************************************************)
(* C10.  print_pages_by_description groups a partition by description:     *)
(* two incidents are under the same group if and only if their             *)
(* descriptions are equal, every incident is exactly one bullet, a group's *)
(* "Paged N times" is the number of its bullets, and the counts add up to  *)
(* the partition's TOTAL in the statistics table.                          *)
(***************************************************************************)
C10_GroupedByDescription ==
    RanToRenderer =>
        /\ Grouped(SectionLines("high_header"), high_urg_incidents)
        /\ include_low => Grouped(SectionLines("low_header"), low_urg_incidents)
        /\ \E t \in StatsTables :
              /\ t[3][5] = Cardinality(Bullets(SectionLines("high_header")))
              /\ include_low =>
                    t[4][5] = Cardinality(Bullets(SectionLines("low_header")))

\* the same of the runs in which every incident has a title, a summary or an id
C10_WhenDescribed ==
    (\A k \in 1..Len(recent_incidents) :
        resolve_description(recent_incidents[k]).has) => C10_GroupedByDescription

\* C8 and C3 of those runs
C8_WhenDescribed ==
    (\A k \in 1..Len(recent_incidents) :
        resolve_description(recent_incidents[k]).has) => C8_FlagOnlyGatesLowSection

====
